---- MODULE Spec2Model ----
(***************************************************************************)
(* A model of the MultiSelect component family of src/multi-select.tsx:    *)
(* the controlled selection (values / onValuesChange / toggleValue), the   *)
(* search-text delegation (inputValue / onInputChange / internalSearch)    *)
(* and the badge overflow measurement of MultiSelectValue.                 *)
(*                                                                         *)
(* A JavaScript Map is modelled as the sequence of its entries             *)
(* [key, value] in insertion order, with pairwise different keys.          *)
(* An optional prop or argument is a sequence of length 0 (undefined) or   *)
(* 1 (provided).                                                           *)
(***************************************************************************)
EXTENDS Integers, Sequences, FiniteSets, TLC

\* ------------------------------------------------------------------ bounds

\* Longest values list the host passes.
MaxLen == 3
\* Most toggleValue invocations through the handlers of one render.
MaxBatch == 2
\* Most toggles of a round-trip run.
MaxTrail == 3
\* Widest container, in layout units.
MaxWidth == 8
\* Width of the "+N" badge, in layout units.
PlusWidth == 2

\* ------------------------------------------------------------ item universe

\* The ids getId produces.
Ids == {1, 2, 3}

\* The objects of type T the host uses: one object per id, and a second,
\* different object that has the same id as the first.
Items == [id : Ids, tag : {0}] \cup {[id |-> 1, tag |-> 1]}

getId(obj) == obj.id

\* The texts a search box holds.
Texts == {"", "a", "b", "ab"}

\* The three overflowBehavior values.
Behaviors == {"wrap", "wrap-when-open", "cutoff"}

\* Every sequence over S of length at most n.
SeqsUpTo(S, n) == UNION {[1..k -> S] : k \in 0..n}

\* ---------------------------------------------------------------- JS Map

MapHas(m, k) == \E i \in 1..Len(m) : m[i].key = k

\* Map.prototype.set: an existing key keeps its position and gets the new
\* value; a new key is appended.
MapSet(m, k, v) ==
  IF MapHas(m, k)
  THEN [i \in 1..Len(m) |-> IF m[i].key = k THEN [key |-> k, value |-> v] ELSE m[i]]
  ELSE Append(m, [key |-> k, value |-> v])

\* Map.prototype.delete.
MapDelete(m, k) == SelectSeq(m, LAMBDA e : e.key # k)

\* Map.prototype.get of a key the map has.
MapGet(m, k) == (CHOOSE e \in {m[i] : i \in 1..Len(m)} : e.key = k).value

\* [...m.values()]
MapValues(m) == [i \in 1..Len(m) |-> m[i].value]

\* [...m.keys()]
MapKeys(m) == [i \in 1..Len(m) |-> m[i].key]

\* new Map(entries): the entries are set one after the other.
RECURSIVE MapFromFirst(_, _)
MapFromFirst(vals, n) ==
  IF n = 0 THEN <<>>
  ELSE MapSet(MapFromFirst(vals, n - 1), getId(vals[n]), vals[n])

\* const selectedMap = new Map(values.map((v) => [getId(v), v]))
SelectedMapOf(vals) == MapFromFirst(vals, Len(vals))

\* toggleValue with a slip: a selected id is set again instead of deleted.
ToggleNeverRemoves(vals, val) ==
  MapValues(MapSet(SelectedMapOf(vals), getId(val), val))

\* toggleValue with a slip: a new value is put first instead of last.
ToggleBroken(vals, val) ==
  LET id == getId(val)
      next == SelectedMapOf(vals)
  IN  MapValues(IF MapHas(next, id) THEN MapDelete(next, id)
                ELSE <<[key |-> id, value |-> val]>> \o next)

\* toggleValue's argument of onValuesChange, for the render whose values are vals.
toggleValue(vals, val) ==
  LET id == getId(val)
      next == SelectedMapOf(vals)
  IN  MapValues(IF MapHas(next, id) THEN MapDelete(next, id) ELSE MapSet(next, id, val))

\* ------------------------------------------------------------------- state

VARIABLES
  values,            \* prop values of the latest render of MultiSelect
  hasOnValuesChange, \* prop onValuesChange is provided
  open,              \* useState(false): the popover's open flag
  clickToRemove,     \* prop clickToRemove of MultiSelectValue
  toggled,           \* arguments of toggleValue since the host last rendered
  emitted,           \* arguments of onValuesChange since the host last rendered
  start,             \* the values of the first render of a round-trip run
  trail,             \* the items toggled in a round-trip run
  internalSearch,    \* useState(""): the internal search text
  inputValue,        \* prop inputValue, <<>> when not provided
  hasOnInputChange,  \* prop onInputChange is provided
  inputCalls,        \* the argument of the latest onInputChange call, <<>> if none
  typed,             \* the text last typed since the props last changed, <<>> if none
  overflowBehavior,  \* prop overflowBehavior of MultiSelectValue
  hidden,            \* ids of the badges whose style.display is "none"
  overflowAmount,    \* useState(0) of MultiSelectValue
  plusN,             \* the N of the "+N" badge in the DOM, 0 when there is none
  effectPending,     \* the measurement effect of the latest commit has not run yet
  renderPending,     \* setOverflowAmount changed the state, not yet rendered
  clientWidth        \* the container's visible width

selVars == <<values, hasOnValuesChange, open, clickToRemove, toggled, emitted>>
tripVars == <<start, trail>>
searchVars == <<internalSearch, inputValue, hasOnInputChange, inputCalls, typed>>
valueVars == <<overflowBehavior, hidden, overflowAmount, plusN, effectPending,
               renderPending, clientWidth>>
vars == <<selVars, tripVars, searchVars, valueVars>>

selectedMap == SelectedMapOf(values)

\* MultiSelectItem: const isSelected = selectedMap.has(id)
isSelected(item) == MapHas(selectedMap, getId(item))

\* ------------------------------------------- MultiSelectValue: the layout

\* The gap between the children of the value container: gap-1.5, the layout unit.
Gap == 1

\* The width of the badge renderItem makes for an id, in layout units.
BadgeWidth(id) == id

Max(a, b) == IF a >= b THEN a ELSE b

RECURSIVE SumWidths(_)
SumWidths(S) ==
  IF S = {} THEN 0
  ELSE LET id == CHOOSE x \in S : TRUE IN BadgeWidth(id) + SumWidths(S \ {id})

KeysOf(vals) == MapKeys(SelectedMapOf(vals))

\* The badges of the value container in DOM order: [...selectedMap.entries()]
keys == KeysOf(values)

KeySet(ks) == {ks[i] : i \in 1..Len(ks)}

ShouldWrapOf(behavior, isOpen) ==
  behavior = "wrap" \/ (behavior = "wrap-when-open" /\ isOpen)

shouldWrap == ShouldWrapOf(overflowBehavior, open)

\* The width the container's children need on one line when the badges of hid
\* have display "none": the shown badges, the "+N" badge if the DOM has one, and
\* a gap between neighbours.
ContentWidth(hid) ==
  LET shown == KeySet(keys) \ hid
      count == Cardinality(shown) + (IF plusN > 0 THEN 1 ELSE 0)
  IN  SumWidths(shown) + (IF plusN > 0 THEN PlusWidth ELSE 0)
        + (IF count > 0 THEN Gap * (count - 1) ELSE 0)

\* container.scrollWidth of the one-line container
scrollWidth(hid) == Max(ContentWidth(hid), clientWidth)

\* The scan with a slip: it goes from the first badge to the last.
RECURSIVE HideForward(_, _)
HideForward(i, hid) ==
  IF i > Len(keys) THEN hid
  ELSE IF scrollWidth(hid) <= clientWidth THEN hid
  ELSE HideForward(i + 1, hid \cup {keys[i]})

MeasureForward == HideForward(1, {})

\* for (let i = childrenEls.length - 1; i >= 0; i--): badge i (counted from 1) and
\* the badges before it are still to visit, those of hid are hidden.
RECURSIVE HideFrom(_, _)
HideFrom(i, hid) ==
  IF i = 0 THEN hid
  ELSE IF scrollWidth(hid) <= clientWidth THEN hid
  ELSE HideFrom(i - 1, hid \cup {keys[i]})

\* The measurement: every badge gets display "", then the scan hides from the last.
Measure == HideFrom(Len(keys), {})

\* The effect with a slip: the badges are not un-hidden first, and only the
\* badges this run hides are counted.
EffectNoReset ==
  IF keys = <<>> \/ shouldWrap
  THEN [hidden |-> hidden, overflowAmount |-> 0]
  ELSE LET now == HideFrom(Len(keys), hidden)
       IN  [hidden |-> now, overflowAmount |-> Cardinality(now \ hidden)]

\* The body of the useEffect: what it leaves in the DOM and passes to
\* setOverflowAmount. valueRef.current is null exactly when the placeholder is
\* rendered, which is when selectedMap is empty.
EffectOutcome ==
  IF keys = <<>> \/ shouldWrap
  THEN [hidden |-> hidden, overflowAmount |-> 0]
  ELSE [hidden |-> Measure, overflowAmount |-> Cardinality(Measure)]

\* React runs the effect of the previous commit, if it is still to run, before it
\* renders again.
Flushed ==
  IF effectPending THEN EffectOutcome
  ELSE [hidden |-> hidden, overflowAmount |-> overflowAmount]

\* {overflowAmount > 0 && !shouldWrap && <Badge>+{overflowAmount}</Badge>}, inside
\* the container, which is rendered when selectedMap is not empty.
PlusBadge(ks, wrap, amount) ==
  IF ks # <<>> /\ amount > 0 /\ ~wrap THEN amount ELSE 0

\* A render of MultiSelect with these props and state, committed: every context
\* consumer renders again, MultiSelectValue with a new selectedMap, so its effect
\* is to run. A badge element stays as long as its key does and keeps the display
\* style the effect gave it; other badges are new.
Commit(newValues, newOpen, newBehavior) ==
  LET f == Flushed IN
  /\ hidden' = f.hidden \cap KeySet(KeysOf(newValues))
  /\ overflowAmount' = f.overflowAmount
  /\ plusN' = PlusBadge(KeysOf(newValues), ShouldWrapOf(newBehavior, newOpen),
                        f.overflowAmount)
  /\ effectPending' = TRUE
  /\ renderPending' = FALSE
  /\ UNCHANGED clientWidth

\* ---------------------------------------------------------- initial states

\* The first render: any props, open false, internalSearch "", overflowAmount 0,
\* no badge hidden, the first measurement effect still to run.
InitSelection ==
  /\ values \in SeqsUpTo(Items, MaxLen)
  /\ open = FALSE
  /\ toggled = <<>>
  /\ emitted = <<>>

InitSearch ==
  /\ internalSearch = ""
  /\ inputCalls = <<>>
  /\ typed = <<>>

InitValue ==
  /\ hidden = {}
  /\ overflowAmount = 0
  /\ plusN = 0
  /\ effectPending = TRUE
  /\ renderPending = FALSE

Init ==
  /\ InitSelection
  /\ start = <<>>
  /\ trail = <<>>
  /\ hasOnValuesChange \in BOOLEAN
  /\ clickToRemove \in BOOLEAN
  /\ InitSearch
  /\ inputValue = <<>>
  /\ hasOnInputChange = FALSE
  /\ InitValue
  /\ overflowBehavior = "wrap"
  /\ clientWidth = MaxWidth

\* ------------------------------------------------- selection: the handlers

\* toggleValue with a slip: each call starts from the list emitted before it
\* instead of the render's selectedMap.
CallToggleCumulative(val) ==
  /\ Len(toggled) < MaxBatch
  /\ toggled' = Append(toggled, val)
  /\ emitted' = IF hasOnValuesChange
                THEN Append(emitted,
                            toggleValue(IF emitted = <<>> THEN values
                                        ELSE emitted[Len(emitted)], val))
                ELSE emitted

\* toggleValue(val) of the current render: onValuesChange?.([...next.values()])
CallToggle(val) ==
  /\ Len(toggled) < MaxBatch
  /\ toggled' = Append(toggled, val)
  /\ emitted' = IF hasOnValuesChange
                THEN Append(emitted, toggleValue(values, val))
                ELSE emitted

\* Popover onOpenChange={setOpen}: the trigger is clicked, or the popover is dismissed.
OpenChange ==
  /\ open' = ~open
  /\ Commit(values, ~open, overflowBehavior)
  /\ UNCHANGED <<values, hasOnValuesChange, clickToRemove, toggled, emitted>>
  /\ UNCHANGED <<tripVars, searchVars, overflowBehavior>>

\* onSelect with a slip: selecting an item also closes the popover.
ItemSelectCloses(val) ==
  /\ open
  /\ CallToggle(val)
  /\ open' = FALSE
  /\ Commit(values, FALSE, overflowBehavior)
  /\ UNCHANGED <<values, hasOnValuesChange, clickToRemove>>
  /\ UNCHANGED <<tripVars, searchVars, overflowBehavior>>

\* CommandItem onSelect={() => toggleValue(value)}; the items are inside the
\* popover's content, which exists while the popover is open.
ItemSelect(val) ==
  /\ open
  /\ CallToggle(val)
  /\ UNCHANGED <<values, hasOnValuesChange, open, clickToRemove>>
  /\ UNCHANGED <<tripVars, searchVars, valueVars>>

\* The badge's onClick with a slip: e.stopPropagation() is missing.
BadgeClickPropagates(id) ==
  /\ MapHas(selectedMap, id)
  /\ IF clickToRemove
     THEN /\ CallToggle(MapGet(selectedMap, id))
          /\ open' = ~open
     ELSE /\ open' = ~open
          /\ UNCHANGED <<toggled, emitted>>
  /\ Commit(values, ~open, overflowBehavior)
  /\ UNCHANGED <<values, hasOnValuesChange, clickToRemove>>
  /\ UNCHANGED <<tripVars, searchVars, overflowBehavior>>

\* A click on the badge of id. With clickToRemove the handler stops the event and
\* toggles the badge's value; without it the badge has no handler and the click
\* bubbles to the trigger button around the badges, which toggles the popover.
BadgeClick(id) ==
  /\ MapHas(selectedMap, id)
  /\ IF clickToRemove
     THEN /\ CallToggle(MapGet(selectedMap, id))
          /\ UNCHANGED <<open, valueVars>>
     ELSE /\ open' = ~open
          /\ Commit(values, ~open, overflowBehavior)
          /\ UNCHANGED <<toggled, emitted, overflowBehavior>>
  /\ UNCHANGED <<values, hasOnValuesChange, clickToRemove>>
  /\ UNCHANGED <<tripVars, searchVars>>

\* The host stores the list of the latest onValuesChange call and renders
\* MultiSelect again with it (README: onValuesChange={setSelected}).
HostApply ==
  /\ emitted # <<>>
  /\ values' = emitted[Len(emitted)]
  /\ toggled' = <<>>
  /\ emitted' = <<>>
  /\ Commit(emitted[Len(emitted)], open, overflowBehavior)
  /\ UNCHANGED <<hasOnValuesChange, open, clickToRemove>>
  /\ UNCHANGED <<tripVars, searchVars, overflowBehavior>>

\* The host renders again with the same values, dropping what was emitted.
HostIgnore ==
  /\ toggled # <<>>
  /\ toggled' = <<>>
  /\ emitted' = <<>>
  /\ Commit(values, open, overflowBehavior)
  /\ UNCHANGED <<values, hasOnValuesChange, open, clickToRemove>>
  /\ UNCHANGED <<tripVars, searchVars, overflowBehavior>>

\* ----------------------------------------- selection: a round-trip run
\* The host of the README: it applies every emission before the next toggle.

InitRoundTrip ==
  /\ InitSelection
  /\ start = values
  /\ trail = <<>>
  /\ hasOnValuesChange = TRUE
  /\ clickToRemove = TRUE
  /\ InitSearch
  /\ inputValue = <<>>
  /\ hasOnInputChange = FALSE
  /\ InitValue
  /\ overflowBehavior = "wrap"
  /\ clientWidth = MaxWidth

\* An item is selected in the list, nothing emitted being left unapplied.
TripSelect(val) ==
  /\ toggled = <<>>
  /\ Len(trail) < MaxTrail
  /\ open
  /\ CallToggle(val)
  /\ trail' = Append(trail, val)
  /\ UNCHANGED <<values, hasOnValuesChange, open, clickToRemove, start>>
  /\ UNCHANGED <<searchVars, valueVars>>

\* A badge is clicked away, nothing emitted being left unapplied.
TripBadge(id) ==
  /\ toggled = <<>>
  /\ Len(trail) < MaxTrail
  /\ MapHas(selectedMap, id)
  /\ clickToRemove
  /\ CallToggle(MapGet(selectedMap, id))
  /\ trail' = Append(trail, MapGet(selectedMap, id))
  /\ UNCHANGED <<values, hasOnValuesChange, open, clickToRemove, start>>
  /\ UNCHANGED <<searchVars, valueVars>>

NextRoundTrip ==
  \/ OpenChange
  \/ \E val \in Items : TripSelect(val)
  \/ \E id \in Ids : TripBadge(id)
  \/ HostApply

SpecRoundTrip == InitRoundTrip /\ [][NextRoundTrip]_vars

\* ------------------------------------------------------------ search text

\* The optional prop inputValue: not provided, or any text.
InputValues == {<<>>} \cup {<<t>> : t \in Texts}

\* The delegation with a slip: || instead of ??, so an empty inputValue falls
\* through to the internal state.
searchValueFalsy ==
  IF inputValue = <<>> \/ inputValue[1] = "" THEN internalSearch ELSE inputValue[1]

\* const searchValue = inputValue ?? internalSearch
searchValue == IF inputValue = <<>> THEN internalSearch ELSE inputValue[1]

InitSearchBox ==
  /\ values = <<>>
  /\ open = FALSE
  /\ toggled = <<>>
  /\ emitted = <<>>
  /\ start = <<>>
  /\ trail = <<>>
  /\ hasOnValuesChange = TRUE
  /\ clickToRemove = TRUE
  /\ InitSearch
  /\ inputValue \in InputValues
  /\ hasOnInputChange \in BOOLEAN
  /\ InitValue
  /\ overflowBehavior = "wrap"
  /\ clientWidth = MaxWidth

\* CommandInput onValueChange={setSearchValue}, with
\* setSearchValue = onInputChange ?? setInternalSearch: the user edits the shown
\* text to text. The input is inside the popover's content.
Type(text) ==
  /\ open
  /\ text # searchValue
  /\ typed' = <<text>>
  /\ IF hasOnInputChange
     THEN /\ inputCalls' = <<text>>
          /\ UNCHANGED <<internalSearch, valueVars>>
     ELSE /\ internalSearch' = text
          /\ Commit(values, open, overflowBehavior)
          /\ UNCHANGED <<inputCalls, overflowBehavior>>
  /\ UNCHANGED <<inputValue, hasOnInputChange>>
  /\ UNCHANGED <<selVars, tripVars>>

\* The host renders MultiSelect with other inputValue / onInputChange props.
HostSearchProps(iv, handler) ==
  /\ <<iv, handler>> # <<inputValue, hasOnInputChange>>
  /\ inputValue' = iv
  /\ hasOnInputChange' = handler
  /\ typed' = <<>>
  /\ Commit(values, open, overflowBehavior)
  /\ UNCHANGED <<internalSearch, inputCalls>>
  /\ UNCHANGED <<selVars, tripVars, overflowBehavior>>

NextSearch ==
  \/ OpenChange
  \/ \E text \in Texts : Type(text)
  \/ \E iv \in InputValues, handler \in BOOLEAN : HostSearchProps(iv, handler)

SpecSearch == InitSearchBox /\ [][NextSearch]_vars

\* ------------------------------------------- MultiSelectValue: the actions

InitValueDisplay ==
  /\ values = <<>>
  /\ open = FALSE
  /\ toggled = <<>>
  /\ emitted = <<>>
  /\ start = <<>>
  /\ trail = <<>>
  /\ hasOnValuesChange = TRUE
  /\ clickToRemove = TRUE
  /\ InitSearch
  /\ inputValue = <<>>
  /\ hasOnInputChange = FALSE
  /\ InitValue
  /\ overflowBehavior \in Behaviors
  /\ clientWidth \in 0..MaxWidth

\* useEffect(..., [selectedMap, shouldWrap]) runs after the commit.
RunEffect ==
  /\ effectPending
  /\ hidden' = EffectOutcome.hidden
  /\ overflowAmount' = EffectOutcome.overflowAmount
  /\ renderPending' = (EffectOutcome.overflowAmount # overflowAmount)
  /\ effectPending' = FALSE
  /\ UNCHANGED <<overflowBehavior, plusN, clientWidth>>
  /\ UNCHANGED <<selVars, tripVars, searchVars>>

\* MultiSelectValue renders again for its changed overflowAmount. The context value
\* is the same, so selectedMap is the same Map and the effect does not run again.
CommitValue ==
  /\ renderPending
  /\ plusN' = PlusBadge(keys, shouldWrap, overflowAmount)
  /\ renderPending' = FALSE
  /\ UNCHANGED <<overflowBehavior, hidden, overflowAmount, effectPending, clientWidth>>
  /\ UNCHANGED <<selVars, tripVars, searchVars>>

\* The host renders with the list a toggle of val hands to onValuesChange.
HostRender(val) ==
  /\ values' = toggleValue(values, val)
  /\ Commit(toggleValue(values, val), open, overflowBehavior)
  /\ UNCHANGED <<hasOnValuesChange, open, clickToRemove, toggled, emitted>>
  /\ UNCHANGED <<tripVars, searchVars, overflowBehavior>>

\* The host renders MultiSelectValue with another overflowBehavior.
SetBehavior(behavior) ==
  /\ behavior # overflowBehavior
  /\ overflowBehavior' = behavior
  /\ Commit(values, open, behavior)
  /\ UNCHANGED <<selVars, tripVars, searchVars>>

\* The container gets another width. Nothing of the component listens to it.
Resize(width) ==
  /\ width # clientWidth
  /\ clientWidth' = width
  /\ UNCHANGED <<overflowBehavior, hidden, overflowAmount, plusN, effectPending,
                 renderPending>>
  /\ UNCHANGED <<selVars, tripVars, searchVars>>

\* MultiSelect renders again with the same props (its host rendered).
ParentRender ==
  /\ Commit(values, open, overflowBehavior)
  /\ UNCHANGED <<selVars, tripVars, searchVars, overflowBehavior>>

NextValue ==
  \/ OpenChange
  \/ \E val \in Items : HostRender(val)
  \/ \E behavior \in Behaviors : SetBehavior(behavior)
  \/ ParentRender
  \/ RunEffect
  \/ CommitValue
  \/ \E width \in 0..MaxWidth : Resize(width)

SpecValue == InitValueDisplay /\ [][NextValue]_vars

\* A fixed selection, container width and non-wrapping mode: the first render of a
\* closed MultiSelect with a list of items of different ids, then only measurements, the
\* renders they ask for, and renders of the host with the same props.
InitStable ==
  /\ values \in {vs \in SeqsUpTo([id : Ids, tag : {0}], Cardinality(Ids)) :
                   \A i, j \in 1..Len(vs) : i < j => getId(vs[i]) # getId(vs[j])}
  /\ open = FALSE
  /\ toggled = <<>>
  /\ emitted = <<>>
  /\ start = <<>>
  /\ trail = <<>>
  /\ hasOnValuesChange = TRUE
  /\ clickToRemove = TRUE
  /\ InitSearch
  /\ inputValue = <<>>
  /\ hasOnInputChange = FALSE
  /\ InitValue
  /\ overflowBehavior = "cutoff"
  /\ clientWidth \in 0..MaxWidth

NextStable ==
  \/ RunEffect
  \/ CommitValue
  \/ ParentRender

\* React runs a pending effect and a pending render.
SpecStable ==
  InitStable /\ [][NextStable]_vars /\ WF_vars(RunEffect) /\ WF_vars(CommitValue)

Next ==
  \/ OpenChange
  \/ \E val \in Items : ItemSelect(val)
  \/ \E id \in Ids : BadgeClick(id)
  \/ HostApply
  \/ HostIgnore

Spec == Init /\ [][Next]_vars

\* ------------------------------------------------ selection: the claims

IdSet(seq) == {getId(seq[i]) : i \in 1..Len(seq)}

NoTwoOfAnId(seq) ==
  \A i, j \in 1..Len(seq) : i # j => getId(seq[i]) # getId(seq[j])

SymDiff(A, B) == (A \ B) \cup (B \ A)

\* The positions of vals that hold the first occurrence of their id.
FirstPositions(vals) ==
  {i \in 1..Len(vals) : \A j \in 1..(i - 1) : getId(vals[j]) # getId(vals[i])}

\* The k-th smallest member of a set of numbers.
NthOf(P, k) == CHOOSE i \in P : Cardinality({j \in P : j < i}) = k - 1

\* The entry of vals that was given last for an id.
LastWithId(vals, id) ==
  vals[CHOOSE i \in 1..Len(vals) :
         /\ getId(vals[i]) = id
         /\ \A j \in (i + 1)..Len(vals) : getId(vals[j]) # id]

\* values de-duplicated by getId: one entry per id, the ids in the order of their
\* first occurrence, each id with the object given last for it.
Dedup(vals) ==
  [k \in 1..Cardinality(FirstPositions(vals)) |->
     LastWithId(vals, getId(vals[NthOf(FirstPositions(vals), k)]))]

Without(seq, id) == SelectSeq(seq, LAMBDA e : getId(e) # id)

ExpectedEmission(vals, val) ==
  IF getId(val) \in IdSet(vals)
  THEN Without(Dedup(vals), getId(val))
  ELSE Append(Dedup(vals), val)

A0 == [id |-> 1, tag |-> 0]
A1 == [id |-> 1, tag |-> 1]
B0 == [id |-> 2, tag |-> 0]
C0 == [id |-> 3, tag |-> 0]

\* C1: with onValuesChange provided, every toggleValue(val) calls it exactly once,
\* with the de-duplicated values minus the entry of val's id when that id is
\* selected, and with the de-duplicated values followed by val otherwise; the
\* emitted list has no two entries of one id, and its id set differs from that of
\* values in exactly getId(val).
C1_ToggleEmission ==
  hasOnValuesChange =>
    /\ Len(emitted) = Len(toggled)
    /\ \A k \in 1..Len(toggled) :
         /\ emitted[k] = ExpectedEmission(values, toggled[k])
         /\ NoTwoOfAnId(emitted[k])
         /\ SymDiff(IdSet(emitted[k]), IdSet(values)) = {getId(toggled[k])}

\* A values list with two objects of one id, toggled with a new id and with a
\* selected one.
C1_Witness ==
  /\ hasOnValuesChange
  /\ values = <<A0, B0, A1>>
  /\ toggled = <<C0, A0>>
  /\ emitted = << <<A1, B0, C0>>, <<B0>> >>

\* A call of toggleValue: one more argument in the log.
ToggleStep == Len(toggled') = Len(toggled) + 1

\* C2: the selection shown is the id-keyed map of the values prop (its keys are the
\* ids of values in first-occurrence order, an item is selected exactly when its id
\* is among them), and a toggle only calls onValuesChange: it leaves values, the
\* open flag and the search text as they are, and without onValuesChange it
\* changes nothing.
C2_Controlled ==
  /\ [](/\ MapKeys(selectedMap) = [k \in 1..Len(Dedup(values)) |-> getId(Dedup(values)[k])]
        /\ \A item \in Items : isSelected(item) <=> getId(item) \in IdSet(values))
  /\ [][ToggleStep =>
          /\ values' = values
          /\ open' = open
          /\ internalSearch' = internalSearch
          /\ inputValue' = inputValue
          /\ Len(emitted') = Len(emitted) + (IF hasOnValuesChange THEN 1 ELSE 0)
          /\ ~hasOnValuesChange => UNCHANGED <<emitted, searchVars, valueVars>>]_vars

\* An item was toggled while the popover is open and nothing was passed back yet:
\* the values prop still holds the old selection.
C2_Witness ==
  /\ open
  /\ hasOnValuesChange
  /\ values = <<B0, C0>>
  /\ toggled = <<B0>>
  /\ emitted = << <<C0>> >>
  /\ isSelected(B0)

\* C9: the emissions of one render are each computed from that render's values:
\* when two different ids a and b are toggled through the handlers of one render,
\* the emissions are values XOR {a} and values XOR {b}, the second one without the
\* first toggle's change, and a host that stores the last emission ends with
\* values XOR {b}.
C9_SameRenderToggles ==
  /\ [](\A i, j \in 1..Len(emitted) :
          (i < j /\ Len(emitted) = Len(toggled)
                 /\ getId(toggled[i]) # getId(toggled[j])) =>
            /\ IdSet(emitted[i]) = SymDiff(IdSet(values), {getId(toggled[i])})
            /\ IdSet(emitted[j]) = SymDiff(IdSet(values), {getId(toggled[j])})
            /\ getId(toggled[i]) \in IdSet(emitted[j])
                 <=> getId(toggled[i]) \in IdSet(values))
  /\ [][HostApply =>
          IdSet(values') = SymDiff(IdSet(values), {getId(toggled[Len(toggled)])})]_vars

\* Two different items were selected through the handlers of one render.
C9_Witness ==
  /\ hasOnValuesChange
  /\ values = <<A0>>
  /\ toggled = <<B0, C0>>
  /\ emitted = << <<A0, B0>>, <<A0, C0>> >>

\* C10: a badge click with clickToRemove emits the selection without the badge's
\* id, the other entries in order, and leaves the open flag alone; without
\* clickToRemove it causes no onValuesChange call.
C10_BadgeClick ==
  [][\A id \in Ids : BadgeClick(id) =>
       IF clickToRemove
       THEN /\ open' = open
            /\ hasOnValuesChange =>
                 emitted' = Append(emitted, Without(Dedup(values), id))
       ELSE emitted' = emitted /\ toggled' = toggled]_vars

\* A badge of a closed popover was clicked away: the popover is still closed.
C10_Witness ==
  /\ clickToRemove
  /\ hasOnValuesChange
  /\ ~open
  /\ values = <<A0, B0, C0>>
  /\ emitted = << <<A0, C0>> >>

\* The ids that occur an odd number of times among the items of seq.
OddIds(seq) ==
  {id \in Ids : Cardinality({k \in 1..Len(seq) : getId(seq[k]) = id}) % 2 = 1}

\* C6: when the host applies every emission before the next toggle, the selected id
\* set is the initial one XOR the ids toggled an odd number of times; toggling the
\* same item twice restores the id set, and when the item was selected it ends up
\* last, after the other entries in their order.
C6_RoundTrip ==
  toggled = <<>> =>
    /\ IdSet(values) = SymDiff(IdSet(start), OddIds(trail))
    /\ (Len(trail) = 2 /\ trail[1] = trail[2]) =>
         /\ IdSet(values) = IdSet(start)
         /\ getId(trail[1]) \in IdSet(start) =>
              values = Append(Without(Dedup(start), getId(trail[1])), trail[1])
         /\ getId(trail[1]) \notin IdSet(start) => values = Dedup(start)

\* The first of two selected items was toggled twice: the ids are back, the order
\* is not.
C6_Witness ==
  /\ start = <<A0, B0>>
  /\ trail = <<A0, A0>>
  /\ toggled = <<>>
  /\ values = <<B0, A0>>

\* C7: the search input shows inputValue whenever it is provided, the empty text
\* included, and the internal state otherwise; typing calls onInputChange when it is
\* provided and then leaves the internal state alone, and sets the internal state
\* otherwise. So with neither prop the shown text is the text typed last, and with
\* inputValue but no onInputChange typing never changes the shown text.
C7_SearchDelegation ==
  /\ [](/\ inputValue # <<>> => searchValue = inputValue[1]
        /\ inputValue = <<>> => searchValue = internalSearch
        /\ (inputValue = <<>> /\ ~hasOnInputChange /\ typed # <<>>) =>
             searchValue = typed[1])
  /\ [][\A text \in Texts : Type(text) =>
          /\ hasOnInputChange =>
               inputCalls' = <<text>> /\ internalSearch' = internalSearch
          /\ ~hasOnInputChange =>
               internalSearch' = text /\ inputCalls' = inputCalls
          /\ (inputValue # <<>> /\ ~hasOnInputChange) => searchValue' = searchValue]_vars

\* An empty inputValue without onInputChange, after the user typed "ab": the
\* internal state took the text, the input still shows the empty text.
C7_Witness ==
  /\ inputValue = <<"">>
  /\ ~hasOnInputChange
  /\ typed = <<"ab">>
  /\ internalSearch = "ab"
  /\ searchValue = ""

\* -------------------------------------------- MultiSelectValue: the claims

\* The last k badges of the container.
LastBadges(k) == {keys[i] : i \in (Len(keys) - k + 1)..Len(keys)}

\* The measurement has run and what it asked for is rendered.
Settled == ~effectPending /\ ~renderPending

\* C3: a run of the measurement on a non-wrapping container leaves a suffix of the
\* badges hidden, whatever was hidden before; each hidden badge was hidden when
\* the content with only the badges after it hidden did not fit; the scan ends with
\* the content fitting or with all n badges hidden, and the count it passes to
\* setOverflowAmount, its number of steps, is the number of hidden badges, at most n.
C3_OverflowScan ==
  [][(effectPending /\ ~effectPending' /\ ~shouldWrap /\ keys # <<>>) =>
       LET n == Len(keys)
           k == Cardinality(hidden')
       IN  /\ hidden' = LastBadges(k)
           /\ \A j \in 0..(k - 1) : ContentWidth(LastBadges(j)) > clientWidth
           /\ ContentWidth(hidden') <= clientWidth \/ k = n
           /\ overflowAmount' = k
           /\ k <= n]_vars

\* A measured container of three badges in which the scan stopped after hiding the
\* last one, the other two fitting.
C3_Witness ==
  /\ Settled
  /\ overflowBehavior = "cutoff"
  /\ keys = <<1, 2, 3>>
  /\ hidden = {3}
  /\ plusN = 1
  /\ clientWidth = 5

\* C4: whenever the value display is wrapping and settled, every badge is visible
\* and there is no "+N" badge.
C4_WrapShowsAll ==
  (shouldWrap /\ Settled) => (hidden = {} /\ plusN = 0)

\* C5: in a settled non-wrapping display the N of the "+N" badge is the number of
\* hidden badges, the badge is there exactly when a badge is hidden, and the visible
\* badges and N add up to the number of selected ids; with an empty selection the
\* counter is 0 and there is no badge at all.
C5_OverflowCounter ==
  Settled =>
    /\ keys = <<>> => (overflowAmount = 0 /\ plusN = 0 /\ hidden = {})
    /\ (keys # <<>> /\ ~shouldWrap) =>
         /\ hidden \subseteq KeySet(keys)
         /\ plusN = Cardinality(hidden)
         /\ overflowAmount = plusN
         /\ plusN > 0 <=> hidden # {}
         /\ Cardinality(KeySet(keys) \ hidden) + plusN = Len(keys)

\* A settled closed display with two of three badges hidden behind "+2".
C5_Witness ==
  /\ Settled
  /\ overflowBehavior = "wrap-when-open"
  /\ ~open
  /\ keys = <<3, 1, 2>>
  /\ hidden = {1, 2}
  /\ plusN = 2

\* C8: for a fixed selection, width and non-wrapping mode the measurement
\* stabilises: from some point on the hidden count equals overflowAmount, the "+N"
\* badge shows it, and no measurement asks for another render.
C8_Stabilises ==
  <>[](/\ ~renderPending
       /\ Cardinality(hidden) = overflowAmount
       /\ plusN = overflowAmount)

\* The second measurement, with the "+N" badge in the way, hid one more badge than
\* the first and is rendered.
C8_Witness ==
  /\ Settled
  /\ keys = <<1, 2, 3>>
  /\ clientWidth = 5
  /\ hidden = {2, 3}
  /\ overflowAmount = 2
  /\ plusN = 2

====
